---- MODULE Spec2Model ----
(***************************************************************************)
(* A model of const-arrayvec's ArrayVec<T, N> (src/src/lib.rs): a vector   *)
(* backed by a fixed array of N possibly-uninitialised slots and a length. *)
(*                                                                         *)
(* Element values are distinct tokens 1, 2, 3, ... so that it can be seen  *)
(* where every value that entered the vector went.  A slot is a piece     *)
(* of memory: reading a value out of it (ptr::read) or copying it          *)
(* (ptr::copy) leaves the old bits behind, exactly as the machine does.    *)
(*                                                                         *)
(* Every method is a pure operator on a vector record                      *)
(*      [items, length, log, fault]                                        *)
(* returning [m |-> the vector afterwards, res |-> the returned value].    *)
(* log lists, in program order, every slot the method read as a T, copied  *)
(* from, or dropped, with the length the vector had at that moment; fault  *)
(* is raised by an access outside the array or a failed debug assertion.   *)
(***************************************************************************)
EXTENDS Integers, Sequences, FiniteSets

\* The capacity, the const generic parameter of ArrayVec<T, N>.
N == 3

\* How many distinct element values a run creates.
MaxVal == 4

\* The bits of a slot nothing was ever written to.
UNINIT == 0

Vals == 1..MaxVal

Slots == 0..(N - 1)

VARIABLES
    items,      \* the backing array: slot index -> value token or UNINIT
    length,     \* the vector's length field
    alive,      \* FALSE once the vector has been dropped
    next,       \* the next unused value token
    pushes,     \* successful pushes so far if the run is new() followed
                \* by pushes only, otherwise -1
    gone,       \* value -> how many times it left the vector: returned to
                \* the caller, unwound with a panic, or dropped in place
    drain,      \* the Drain borrowing the vector, if one is alive
    last        \* the last call: its name, arguments, the vector before
                \* it, what it returned and what it accessed

vars == <<items, length, alive, next, pushes, gone, drain, last>>

-----------------------------------------------------------------------------
\* Results.

Res(tag, val) == [tag |-> tag, val |-> val]

Ret(m, tag, val) == [m |-> m, res |-> Res(tag, val)]

\* panic!(): the call unwinds and the vector is what it was at that point.
Panic(m, val) == Ret(m, "Panic", val)

-----------------------------------------------------------------------------
\* Raw memory.

InBounds(i) == i \in Slots

Bits(m, i) == IF InBounds(i) THEN m.items[i] ELSE UNINIT

Access(m, kind, i) ==
    [kind |-> kind, idx |-> i, len |-> m.length, val |-> Bits(m, i)]

Fault(m) == [m EXCEPT !.fault = TRUE]

\* ptr::read(p.add(i)): the value is Bits(m, i); the slot keeps its bits.
ptr_read(m, i) ==
    LET logged == [m EXCEPT !.log = Append(@, Access(m, "read", i))]
    IN  IF InBounds(i) THEN logged ELSE Fault(logged)

\* p.add(i).write(v): no read and no drop of what was there.
ptr_write(m, i, v) ==
    IF InBounds(i) THEN [m EXCEPT !.items[i] = v] ELSE Fault(m)

\* ptr::copy(p.add(src), p.add(dst), count): memmove of count slots.
ptr_copy(m, src, dst, count) ==
    LET logged == [m EXCEPT !.log = @ \o [k \in 1..count |->
                                            Access(m, "copy", src + k - 1)]]
    IN  IF count < 0 THEN Fault(m)
        ELSE IF count > 0 /\ (~InBounds(src) \/ ~InBounds(dst)
                              \/ src + count > N \/ dst + count > N)
        THEN Fault(logged)
        ELSE [logged EXCEPT
                !.items = [k \in Slots |->
                             IF k >= dst /\ k < dst + count
                             THEN m.items[k - dst + src]
                             ELSE m.items[k]]]

\* ptr::drop_in_place on the slice of count slots starting at start: the
\* destructors run in increasing index order.
drop_in_place(m, start, count) ==
    LET logged == [m EXCEPT !.log = @ \o [k \in 1..count |->
                                            Access(m, "drop", start + k - 1)]]
    IN  IF count < 0 THEN Fault(m)
        ELSE IF count > 0 /\ (~InBounds(start) \/ start + count > N)
        THEN Fault(logged)
        ELSE logged

-----------------------------------------------------------------------------
\* ArrayVec.

new == [items |-> [i \in Slots |-> UNINIT], length |-> 0,
        log |-> <<>>, fault |-> FALSE]

len(m) == m.length

is_empty(m) == len(m) = 0

capacity(m) == N

remaining_capacity(m) == capacity(m) - len(m)

\* A faulty is_full: > for >=.
is_full_gt(m) == len(m) > capacity(m)

is_full(m) == len(m) >= capacity(m)

set_len(m, new_length) ==
    IF new_length <= capacity(m) /\ new_length >= 0
    THEN [m EXCEPT !.length = new_length]
    ELSE Fault([m EXCEPT !.length = new_length])

\* A faulty push_unchecked: the length is not updated.
push_unchecked_keep_len(m, item) ==
    LET l  == len(m)
        m0 == IF is_full(m) THEN Fault(m) ELSE m
        m1 == ptr_write(m0, l, item)
    IN  set_len(m1, l)

push_unchecked(m, item) ==
    LET l  == len(m)
        m0 == IF is_full(m) THEN Fault(m) ELSE m
        m1 == ptr_write(m0, l, item)
    IN  set_len(m1, l + 1)

\* A faulty try_push: a full vector overwrites its last element.
try_push_overwrite(m, item) ==
    IF is_full(m)
    THEN Ret(ptr_write(m, len(m) - 1, item), "Ok", UNINIT)
    ELSE Ret(push_unchecked(m, item), "Ok", UNINIT)

try_push(m, item) ==
    IF is_full(m)
    THEN Ret(m, "Err", item)
    ELSE Ret(push_unchecked(m, item), "Ok", UNINIT)

push(m, item) ==
    LET r == try_push(m, item)
    IN  IF r.res.tag = "Ok" THEN r ELSE Panic(r.m, r.res.val)

\* A faulty pop: the read is at the old length.
pop_read_at_len(m) ==
    IF is_empty(m)
    THEN Ret(m, "None", UNINIT)
    ELSE LET new_length == len(m) - 1
             m1 == set_len(m, new_length)
         IN  Ret(ptr_read(m1, len(m)), "Some", Bits(m1, len(m)))

pop(m) ==
    IF is_empty(m)
    THEN Ret(m, "None", UNINIT)
    ELSE LET new_length == len(m) - 1
             m1 == set_len(m, new_length)
         IN  Ret(ptr_read(m1, new_length), "Some", Bits(m1, new_length))

\* A faulty truncate: the tail is dropped first and the length set after.
truncate_set_len_last(m, new_length) ==
    IF new_length < len(m)
    THEN LET num_elements_to_remove == len(m) - new_length
             m1 == drop_in_place(m, new_length, num_elements_to_remove)
         IN  Ret(set_len(m1, new_length), "Unit", UNINIT)
    ELSE Ret(m, "Unit", UNINIT)

\* A faulty truncate: the tail is cut off without being dropped.
truncate_no_drop(m, new_length) ==
    IF new_length < len(m)
    THEN Ret(set_len(m, new_length), "Unit", UNINIT)
    ELSE Ret(m, "Unit", UNINIT)

\* A faulty truncate: the first element of the tail is not dropped.
truncate_drop_short(m, new_length) ==
    IF new_length < len(m)
    THEN LET num_elements_to_remove == len(m) - new_length
             m1 == set_len(m, new_length)
         IN  Ret(drop_in_place(m1, new_length + 1,
                               num_elements_to_remove - 1),
                 "Unit", UNINIT)
    ELSE Ret(m, "Unit", UNINIT)

truncate(m, new_length) ==
    IF new_length < len(m)
    THEN LET num_elements_to_remove == len(m) - new_length
             m1 == set_len(m, new_length)
         IN  Ret(drop_in_place(m1, new_length, num_elements_to_remove),
                 "Unit", UNINIT)
    ELSE Ret(m, "Unit", UNINIT)

\* truncate when the destructor run by its k-th drop panics: the call
\* unwinds from there, so the vector keeps the length it had at that drop;
\* the drop glue of the slice still drops the rest of the tail on the way
\* out.
truncate_unwind(m, new_length, k) ==
    LET r == truncate(m, new_length)
    IN  Panic([r.m EXCEPT !.length = r.m.log[k].len], UNINIT)

clear(m) == truncate(m, 0)

\* A faulty insert_unchecked_keep_len: the shift stops one slot short.
insert_unchecked_keep_len_short(m, index, item, l) ==
    LET m1 == IF l - index - 1 >= 0
              THEN ptr_copy(m, index, index + 1, l - index - 1)
              ELSE m
    IN  ptr_write(m1, index, item)

insert_unchecked_keep_len(m, index, item, l) ==
    LET m1 == ptr_copy(m, index, index + 1, l - index)
    IN  ptr_write(m1, index, item)

insert_unchecked(m, index, item) ==
    LET l == len(m)
    IN  set_len(insert_unchecked_keep_len(m, index, item, l), l + 1)

\* A faulty try_insert: the capacity is checked before the index.
try_insert_capacity_first(m, index, item) ==
    LET l == len(m)
    IN  IF is_full(m) THEN Ret(m, "Err", item)
        ELSE IF index > l THEN Panic(m, item)
        ELSE Ret(insert_unchecked(m, index, item), "Ok", UNINIT)

try_insert(m, index, item) ==
    LET l == len(m)
    IN  IF index > l THEN Panic(m, item)
        ELSE IF is_full(m) THEN Ret(m, "Err", item)
        ELSE Ret(insert_unchecked(m, index, item), "Ok", UNINIT)

\* A faulty insert: a capacity error is swallowed.
insert_swallow(m, index, item) ==
    LET r == try_insert(m, index, item)
    IN  IF r.res.tag = "Err" THEN Ret(r.m, "Ok", UNINIT) ELSE r

insert(m, index, item) ==
    LET r == try_insert(m, index, item)
    IN  IF r.res.tag = "Err" THEN Panic(r.m, r.res.val) ELSE r

\* A faulty force_insert: the last item is read after the shift.
force_insert_read_late(m, index, item) ==
    LET l == len(m)
    IN  IF index > l \/ index = N THEN Panic(m, item)
        ELSE IF is_full(m)
        THEN LET m1 == insert_unchecked_keep_len(m, index, item, l - 1)
             IN  Ret(ptr_read(m1, l - 1), "Some", Bits(m1, l - 1))
        ELSE Ret(insert_unchecked(m, index, item), "None", UNINIT)

\* A faulty force_insert: index = N is not refused.
force_insert_no_cap_check(m, index, item) ==
    LET l == len(m)
    IN  IF index > l THEN Panic(m, item)
        ELSE IF is_full(m)
        THEN LET m1 == ptr_read(m, l - 1)
             IN  Ret(insert_unchecked_keep_len(m1, index, item, l - 1),
                     "Some", Bits(m, l - 1))
        ELSE Ret(insert_unchecked(m, index, item), "None", UNINIT)

force_insert(m, index, item) ==
    LET l == len(m)
    IN  IF index > l \/ index = N THEN Panic(m, item)
        ELSE IF is_full(m)
        THEN LET m1 == ptr_read(m, l - 1)
             IN  Ret(insert_unchecked_keep_len(m1, index, item, l - 1),
                     "Some", Bits(m, l - 1))
        ELSE Ret(insert_unchecked(m, index, item), "None", UNINIT)

\* A faulty remove_unchecked: the shift copies one slot too many.
remove_unchecked_copy_over(m, index) ==
    LET l  == len(m)
        m1 == ptr_read(m, index)
        m2 == ptr_copy(m1, index + 1, index, l - index)
    IN  Ret(set_len(m2, l - 1), "Some", Bits(m, index))

\* A faulty remove_unchecked: the item is read after the shift.
remove_unchecked_read_late(m, index) ==
    LET l  == len(m)
        m1 == ptr_copy(m, index + 1, index, l - index - 1)
        m2 == ptr_read(m1, index)
    IN  Ret(set_len(m2, l - 1), "Some", Bits(m1, index))

remove_unchecked(m, index) ==
    LET l  == len(m)
        m1 == ptr_read(m, index)
        m2 == ptr_copy(m1, index + 1, index, l - index - 1)
    IN  Ret(set_len(m2, l - 1), "Some", Bits(m, index))

\* A faulty try_remove: the last index is taken to be out of bounds.
try_remove_strict(m, index) ==
    IF index < len(m) - 1 THEN remove_unchecked(m, index)
    ELSE Ret(m, "None", UNINIT)

try_remove(m, index) ==
    IF index < len(m) THEN remove_unchecked(m, index)
    ELSE Ret(m, "None", UNINIT)

remove(m, index) ==
    LET r == try_remove(m, index)
    IN  IF r.res.tag = "Some" THEN r ELSE Panic(r.m, UNINIT)

\* A faulty swap_remove_unchecked: the length is not lowered.
swap_remove_unchecked_keep_len(m, index) ==
    LET new_len   == len(m) - 1
        m1        == ptr_read(m, index)
        m2        == ptr_read(m1, new_len)
        last_item == Bits(m1, new_len)
        m3        == ptr_write(m2, index, last_item)
    IN  Ret(m3, "Some", Bits(m, index))

\* A faulty swap_remove_unchecked: the last item is not written to index.
swap_remove_unchecked_no_write(m, index) ==
    LET new_len   == len(m) - 1
        m1        == ptr_read(m, index)
        m2        == ptr_read(m1, new_len)
    IN  Ret(set_len(m2, new_len), "Some", Bits(m, index))

swap_remove_unchecked(m, index) ==
    LET new_len   == len(m) - 1
        m1        == ptr_read(m, index)
        m2        == ptr_read(m1, new_len)
        last_item == Bits(m1, new_len)
        m3        == ptr_write(m2, index, last_item)
    IN  Ret(set_len(m3, new_len), "Some", Bits(m, index))

\* A faulty try_swap_remove: an index past the end means the last element.
try_swap_remove_clamped(m, index) ==
    IF index < len(m) THEN swap_remove_unchecked(m, index)
    ELSE IF len(m) > 0 THEN swap_remove_unchecked(m, len(m) - 1)
    ELSE Ret(m, "None", UNINIT)

try_swap_remove(m, index) ==
    IF index < len(m) THEN swap_remove_unchecked(m, index)
    ELSE Ret(m, "None", UNINIT)

swap_remove(m, index) ==
    LET r == try_swap_remove(m, index)
    IN  IF r.res.tag = "Some" THEN r ELSE Panic(r.m, UNINIT)

\* A faulty try_extend_from_slice: a slice that fills the vector exactly is
\* refused.
try_extend_from_slice_le(m, other) ==
    IF remaining_capacity(m) <= Len(other)
    THEN Ret(m, "Err", UNINIT)
    ELSE Ret(set_len([m EXCEPT !.items =
                        [k \in Slots |->
                           IF k >= len(m) /\ k < len(m) + Len(other)
                           THEN other[k - len(m) + 1]
                           ELSE m.items[k]]],
                     len(m) + Len(other)), "Ok", UNINIT)

\* other is a slice of Copy values, here a sequence of value tokens.
try_extend_from_slice(m, other) ==
    IF remaining_capacity(m) < Len(other)
    THEN Ret(m, "Err", UNINIT)
    ELSE LET self_len  == len(m)
             other_len == Len(other)
             m1 == IF other_len > 0 /\ self_len + other_len > N
                   THEN Fault(m)
                   ELSE [m EXCEPT !.items =
                           [k \in Slots |->
                              IF k >= self_len /\ k < self_len + other_len
                              THEN other[k - self_len + 1]
                              ELSE m.items[k]]]
         IN  Ret(set_len(m1, self_len + other_len), "Ok", UNINIT)

\* Deref: the slice view, slice::from_raw_parts(self.as_ptr(), self.len()).
deref(m) == [k \in 1..len(m) |-> Bits(m, k - 1)]

as_slice(m) == deref(m)

\* From<[T; N]>: the array's N values are copied into the buffer.
from(other) ==
    LET vec == new
        m1  == [vec EXCEPT !.items = [k \in Slots |-> other[k + 1]]]
    IN  set_len(m1, N)

\* item.clone(): a new value, distinct from every value the caller made.
CloneOf(v) == IF v = UNINIT THEN UNINIT ELSE v + MaxVal

\* The loop of Clone::clone, at its k-th slice element (k counts from 0).
RECURSIVE clone_loop(_, _, _)
clone_loop(m, other, k) ==
    IF k >= Len(as_slice(m))
    THEN [m |-> m, res |-> Res("Vec", UNINIT), other |-> other]
    ELSE LET m1 == ptr_read(m, k)
         IN  clone_loop(m1, push_unchecked(other, CloneOf(Bits(m, k))), k + 1)

clone(m) == clone_loop(m, new, 0)

\* A faulty Drop: the destructor runs over the whole backing array.
drop_whole_array(m) ==
    Ret(drop_in_place(set_len(m, 0), 0, N), "Unit", UNINIT)

\* Drop for ArrayVec.
drop(m) == clear(m)

-----------------------------------------------------------------------------
\* Drain: the iterator over a sub-range [start, end) of the vector.  It
\* borrows the vector for as long as it lives.  head is the cursor, the
\* index of the next victim to yield, and tail the number of elements
\* behind the range.  pre (the vector as it was when the drain was made)
\* and taken (the values yielded so far) are kept for the properties only.

NoDrain == [active |-> FALSE, start |-> 0, end |-> 0, head |-> 0,
            tail |-> 0, taken |-> <<>>,
            pre |-> [items |-> new.items, length |-> 0]]

Range2(start, end) == [start |-> start, end |-> end]

\* A faulty Drain::with_range: the end of the range is not checked
\* against the length.
with_range_no_end_check(m, start, end) ==
    IF start > end
    THEN [m |-> m, res |-> Res("Panic", UNINIT), range |-> Range2(start, end),
          d |-> NoDrain]
    ELSE [m |-> set_len(m, len(m) - (end - start)),
          res |-> Res("Drain", UNINIT), range |-> Range2(start, end),
          d |-> [active |-> TRUE, start |-> start, end |-> end,
                 head |-> start, tail |-> len(m) - end, taken |-> <<>>,
                 pre |-> [items |-> m.items, length |-> m.length]]]

\* A faulty Drain::with_range: the length is cut down to start, which
\* hides the tail as well.
with_range_len_start(m, start, end) ==
    IF start > end \/ end > len(m)
    THEN [m |-> m, res |-> Res("Panic", UNINIT), range |-> Range2(start, end),
          d |-> NoDrain]
    ELSE [m |-> set_len(m, start),
          res |-> Res("Drain", UNINIT), range |-> Range2(start, end),
          d |-> [active |-> TRUE, start |-> start, end |-> end,
                 head |-> start, tail |-> len(m) - end, taken |-> <<>>,
                 pre |-> [items |-> m.items, length |-> m.length]]]

\* Drain::with_range: the range is checked, then the vector's length is
\* at once reduced by end - start; no element is moved.
with_range(m, start, end) ==
    IF start > end \/ end > len(m)
    THEN [m |-> m, res |-> Res("Panic", UNINIT), range |-> Range2(start, end),
          d |-> NoDrain]
    ELSE [m |-> set_len(m, len(m) - (end - start)),
          res |-> Res("Drain", UNINIT), range |-> Range2(start, end),
          d |-> [active |-> TRUE, start |-> start, end |-> end,
                 head |-> start, tail |-> len(m) - end, taken |-> <<>>,
                 pre |-> [items |-> m.items, length |-> m.length]]]

\* ArrayVec::drain.
drain_range(m, start, end) == with_range(m, start, end)

\* Iterator::next for Drain: the next victim, by value, or None when all
\* have been yielded.
drain_next(m, d) ==
    IF d.head < d.end
    THEN [m |-> ptr_read(m, d.head), res |-> Res("Some", Bits(m, d.head)),
          range |-> Range2(d.start, d.end),
          d |-> [d EXCEPT !.head = @ + 1,
                          !.taken = Append(@, Bits(m, d.head))]]
    ELSE [m |-> m, res |-> Res("None", UNINIT),
          range |-> Range2(d.start, d.end), d |-> d]

\* A faulty Drop for Drain: the victims not yet yielded are dropped but
\* the tail is left where it was.
drain_drop_no_shift(m, d) ==
    LET m1 == drop_in_place(m, d.head, d.end - d.head)
    IN  [m |-> m1, res |-> Res("Unit", UNINIT),
         range |-> Range2(d.start, d.end), taken |-> d.taken,
         d |-> NoDrain]

\* Drop for Drain: the victims not yet yielded are dropped in index order,
\* then the elements that were at [end, length) are moved down to start.
drain_drop(m, d) ==
    LET m1 == drop_in_place(m, d.head, d.end - d.head)
        m2 == ptr_copy(m1, d.end, d.start, d.tail)
    IN  [m |-> m2, res |-> Res("Unit", UNINIT),
         range |-> Range2(d.start, d.end), taken |-> d.taken,
         d |-> NoDrain]

-----------------------------------------------------------------------------
\* The program: one vector, made by new() or from an array, and a caller
\* that calls its methods in any order with any arguments, then drops it.

\* Indices and lengths a caller passes: every valid one and two beyond.
Args == 0..(N + 1)

M == [items |-> items, length |-> length, log |-> <<>>, fault |-> FALSE]

Before == [items |-> items, length |-> length]

\* The record of a call: given is the sequence of values passed in (the
\* item, or the slice of try_extend_from_slice), index the index or length
\* argument.
Call(op, index, given, pre, r) ==
    [op |-> op, index |-> index, given |-> given, pre |-> pre,
     res |-> r.res, log |-> r.m.log, fault |-> r.m.fault,
     other |-> IF "other" \in DOMAIN r THEN r.other ELSE new,
     range |-> IF "range" \in DOMAIN r THEN r.range ELSE Range2(0, 0),
     taken |-> IF "taken" \in DOMAIN r THEN r.taken ELSE <<>>]

\* How many times value v left the vector in the call that returned r.
Left(r, v) ==
    (IF r.res.tag \in {"Some", "Err", "Panic"} /\ r.res.val = v
     THEN 1 ELSE 0)
    + Cardinality({k \in DOMAIN r.m.log :
                     r.m.log[k].kind = "drop" /\ r.m.log[k].val = v})

\* The state after a call that returned r.  last keeps the call: the vector
\* before it, the value returned (in Some or Err the value is back with the
\* caller; the item of a call that panicked is dropped by the unwinding)
\* and the log of slots read, copied and dropped.
CommitFrom(op, index, given, pre, r, used) ==
    /\ items' = r.m.items
    /\ length' = r.m.length
    /\ next' = next + used
    /\ pushes' = IF op = "push" /\ r.res.tag = "Ok" /\ pushes >= 0
                 THEN pushes + 1 ELSE -1
    /\ gone' = [v \in Vals |-> gone[v] + Left(r, v)]
    /\ last' = Call(op, index, given, pre, r)

Commit(op, index, given, r, used) ==
    CommitFrom(op, index, given, Before, r, used)

\* No call can be made on a vector that was dropped or is borrowed by a
\* drain.
Idle == alive /\ ~drain.active

Fresh == next <= MaxVal

InitNew ==
    /\ items = new.items
    /\ length = new.length
    /\ next = 1
    /\ pushes = 0
    /\ last = Call("new", 0, <<>>, [items |-> new.items, length |-> 0],
                   Ret(new, "Vec", UNINIT))

InitFrom ==
    LET other == [k \in 1..N |-> k]
        vec   == from(other)
    IN  /\ items = vec.items
        /\ length = vec.length
        /\ next = N + 1
        /\ pushes = -1
        /\ last = Call("from", 0, other, [items |-> new.items, length |-> 0],
                       Ret(vec, "Vec", UNINIT))

Init ==
    /\ InitNew \/ InitFrom
    /\ alive = TRUE
    /\ gone = [v \in Vals |-> 0]
    /\ drain = NoDrain

Push ==
    /\ Idle /\ Fresh
    /\ Commit("push", 0, <<next>>, push(M, next), 1)
    /\ UNCHANGED <<alive, drain>>

TryPush ==
    /\ Idle /\ Fresh
    /\ Commit("try_push", 0, <<next>>, try_push(M, next), 1)
    /\ UNCHANGED <<alive, drain>>

Pop ==
    /\ Idle
    /\ Commit("pop", 0, <<>>, pop(M), 0)
    /\ UNCHANGED <<alive, drain>>

Truncate ==
    /\ Idle
    /\ \E new_length \in Args :
          Commit("truncate", new_length, <<>>, truncate(M, new_length), 0)
    /\ UNCHANGED <<alive, drain>>

\* A truncate in which the destructor of one of the dropped elements
\* panics.
TruncateUnwind ==
    /\ Idle
    /\ \E new_length \in Args, k \in 1..N :
          /\ k <= Len(truncate(M, new_length).m.log)
          /\ Commit("truncate", new_length, <<>>,
                    truncate_unwind(M, new_length, k), 0)
    /\ UNCHANGED <<alive, drain>>

Clear ==
    /\ Idle
    /\ Commit("clear", 0, <<>>, clear(M), 0)
    /\ UNCHANGED <<alive, drain>>

Insert ==
    /\ Idle /\ Fresh
    /\ \E index \in Args :
          Commit("insert", index, <<next>>, insert(M, index, next), 1)
    /\ UNCHANGED <<alive, drain>>

TryInsert ==
    /\ Idle /\ Fresh
    /\ \E index \in Args :
          Commit("try_insert", index, <<next>>, try_insert(M, index, next), 1)
    /\ UNCHANGED <<alive, drain>>

ForceInsert ==
    /\ Idle /\ Fresh
    /\ \E index \in Args :
          Commit("force_insert", index, <<next>>,
                 force_insert(M, index, next), 1)
    /\ UNCHANGED <<alive, drain>>

Remove ==
    /\ Idle
    /\ \E index \in Args : Commit("remove", index, <<>>, remove(M, index), 0)
    /\ UNCHANGED <<alive, drain>>

TryRemove ==
    /\ Idle
    /\ \E index \in Args :
          Commit("try_remove", index, <<>>, try_remove(M, index), 0)
    /\ UNCHANGED <<alive, drain>>

SwapRemove ==
    /\ Idle
    /\ \E index \in Args :
          Commit("swap_remove", index, <<>>, swap_remove(M, index), 0)
    /\ UNCHANGED <<alive, drain>>

TrySwapRemove ==
    /\ Idle
    /\ \E index \in Args :
          Commit("try_swap_remove", index, <<>>, try_swap_remove(M, index), 0)
    /\ UNCHANGED <<alive, drain>>

\* The slice holds count new values; index records count.
TryExtendFromSlice ==
    /\ Idle
    /\ \E count \in Args :
          /\ next + count - 1 <= MaxVal
          /\ LET other == [k \in 1..count |-> next + k - 1]
                 r == try_extend_from_slice(M, other)
             IN  Commit("try_extend_from_slice", count, other, r,
                        IF r.res.tag = "Ok" THEN count ELSE 0)
    /\ UNCHANGED <<alive, drain>>

Clone ==
    /\ Idle
    /\ Commit("clone", 0, <<>>, clone(M), 0)
    /\ UNCHANGED <<alive, drain>>

Drop ==
    /\ Idle
    /\ Commit("drop", 0, <<>>, drop(M), 0)
    /\ alive' = FALSE
    /\ UNCHANGED drain

\* The caller makes a drain over any range, valid or not.
DrainStart ==
    /\ Idle
    /\ \E start \in Args, end \in Args :
          LET r == drain_range(M, start, end)
          IN  /\ Commit("drain", start, <<>>, r, 0)
              /\ drain' = r.d
    /\ UNCHANGED alive

\* The caller advances the drain.
DrainNext ==
    /\ drain.active
    /\ LET r == drain_next(M, drain)
       IN  /\ CommitFrom("drain_next", drain.start, <<>>, drain.pre, r, 0)
           /\ drain' = r.d
    /\ UNCHANGED alive

\* The caller lets go of the drain, whatever it has yielded so far.
DrainDrop ==
    /\ drain.active
    /\ LET r == drain_drop(M, drain)
       IN  /\ CommitFrom("drain_drop", drain.start, <<>>, drain.pre, r, 0)
           /\ drain' = r.d
    /\ UNCHANGED alive

\* A caller that uses no drain.
Next ==
    \/ Push \/ TryPush \/ Pop \/ Truncate \/ Clear
    \/ Insert \/ TryInsert \/ ForceInsert
    \/ Remove \/ TryRemove \/ SwapRemove \/ TrySwapRemove
    \/ TryExtendFromSlice \/ Clone \/ Drop

Spec == Init /\ [][Next]_vars

\* A caller whose elements have destructors that may panic in truncate;
\* the panic is caught, or the vector is dropped by the unwinding.
NextUnwind ==
    \/ TryPush \/ Pop \/ Truncate \/ TruncateUnwind \/ Drop

SpecUnwind == Init /\ [][NextUnwind]_vars

\* A caller that fills and empties the vector and drains it: between two
\* drains it pushes, pops and removes, which gives the vector every
\* length and leaves old bits behind its end.
NextDrain ==
    \/ TryPush \/ Pop \/ TryRemove \/ Drop
    \/ DrainStart \/ DrainNext \/ DrainDrop

SpecDrain == Init /\ [][NextDrain]_vars


-----------------------------------------------------------------------------
\* What the properties speak about.

\* The vector's elements before the last call, and now.
PreSeq == [k \in 1..last.pre.length |-> last.pre.items[k - 1]]

Elems == as_slice(M)

\* The last call changed neither the length nor any slot.
Untouched == items = last.pre.items /\ length = last.pre.length

\* The item the last call was given.
Item == last.given[1]

Range(s) == {s[k] : k \in DOMAIN s}

\* The values the last call moved into the vector's hands (a slice that
\* try_extend_from_slice refused was never taken).
Entered ==
    IF last.op = "try_extend_from_slice" /\ last.res.tag = "Err"
    THEN {}
    ELSE Range(last.given)

\* The values the last call gave away: returned to the caller (or unwound
\* with the panic), and dropped in place.
Returned == IF last.res.val # UNINIT THEN {last.res.val} ELSE {}

RECURSIVE DropsFrom(_)
DropsFrom(k) ==
    IF k > Len(last.log) THEN <<>>
    ELSE IF last.log[k].kind = "drop"
         THEN <<last.log[k]>> \o DropsFrom(k + 1)
         ELSE DropsFrom(k + 1)

DroppedSeq == DropsFrom(1)

Dropped == {DroppedSeq[k].val : k \in DOMAIN DroppedSeq}

\* The values the vector owns after the last call: those it owned or was
\* given, less those it gave away.
Owned == (Range(PreSeq) \cup Entered) \ (Returned \cup Dropped)

\* Slot i holds a live value: its bits are a value the vector owns, and no
\* earlier slot holds the same bits (a later copy is what a read or a shift
\* left behind).
HoldsLive(i) ==
    /\ items[i] # UNINIT
    /\ items[i] \in Owned
    /\ \A j \in Slots : j < i => items[j] # items[i]

-----------------------------------------------------------------------------
\* C1: after any sequence of calls from new() or from a full array, failed
\* and panicking calls included, 0 <= length <= N.
C1_LengthWithinCapacity == length >= 0 /\ length <= N

\* A push onto a full vector has panicked and the length is still N.
C1_Witness == last.op = "push" /\ last.res.tag = "Panic" /\ length = N

\* C2: after every completed call exactly the slots [0, length) hold live
\* values, no slot in [length, N) does, and the slice view is the first
\* length slots in index order; a clone is built the same way.
C2_ExactlyPrefixLive ==
    /\ \A i \in Slots : HoldsLive(i) <=> i < length
    /\ Len(Elems) = length
    /\ \A k \in 1..length : Elems[k] = items[k - 1]
    /\ last.op = "clone" =>
          /\ Untouched
          /\ last.other.length = length
          /\ \A i \in Slots :
                last.other.items[i] =
                    IF i < length THEN CloneOf(items[i]) ELSE UNINIT

\* A remove has shifted the tail down and left stale bits behind the end.
C2_Witness ==
    /\ last.op = "remove" /\ last.res.tag = "Some"
    /\ length = N - 1 /\ items[N - 1] # UNINIT

\* C3 as stated: at every step of every call, a slot at or beyond the
\* length the vector has at that step is never read as a T nor dropped.
C3_NoAccessBeyondCurrentLength ==
    \A k \in DOMAIN last.log :
        last.log[k].kind \in {"read", "drop"}
            => last.log[k].idx < last.log[k].len

\* C3, amended: every slot a call of ArrayVec reads, copies from or drops
\* lies below the length the vector had when the call began, and holds a
\* value; pop and truncate (so clear and drop) lower the length first.
C3_NoAccessBeyondLengthAtEntry ==
    /\ ~last.fault
    /\ \A k \in DOMAIN last.log :
          /\ last.log[k].idx >= 0
          /\ last.log[k].idx < last.pre.length
          /\ last.log[k].val # UNINIT

\* truncate has dropped slots at and beyond the length it had already set.
C3_Witness ==
    /\ last.op = "truncate" /\ Len(DroppedSeq) >= 2
    /\ \A k \in DOMAIN DroppedSeq : DroppedSeq[k].idx >= DroppedSeq[k].len

\* C4: after k pushes onto an empty vector len() is k and is_full() is true
\* exactly when k = N; in every state is_full() holds iff length = N.
C4_LenCountsPushes ==
    /\ pushes >= 0 => /\ len(M) = pushes
                      /\ pushes <= N
                      /\ is_full(M) <=> pushes = N
    /\ is_full(M) <=> length = N

\* N pushes onto new() have filled the vector.
C4_Witness == pushes = N /\ is_full(M) /\ len(M) = N
\* C5: try_push(item) on a full vector returns the same item in
\* CapacityError and changes nothing; otherwise it writes item at index
\* length, keeps elements [0, length) and adds exactly one to the length.
C5_TryPush ==
    last.op = "try_push" =>
        IF last.pre.length = N
        THEN /\ last.res = Res("Err", Item)
             /\ Untouched
        ELSE /\ last.res.tag = "Ok"
             /\ length = last.pre.length + 1
             /\ Elems = Append(PreSeq, Item)
             /\ \A i \in Slots : i < last.pre.length
                                    => items[i] = last.pre.items[i]

\* try_push on a full vector has handed the item back.
C5_Witness ==
    /\ last.op = "try_push" /\ last.pre.length = N
    /\ last.res.tag = "Err" /\ last.res.val = Item /\ Item # UNINIT

\* C6: push on a full vector, and insert at an index <= length on a full
\* vector, panic; at the panic length and contents are as before the call.
C6_PushInsertPanicWhenFull ==
    /\ last.op \in {"push", "insert"}
    /\ last.pre.length = N
    /\ last.op = "insert" => last.index <= last.pre.length
    => /\ last.res.tag = "Panic"
       /\ Untouched

\* insert at a valid index of a full vector has panicked.
C6_Witness ==
    /\ last.op = "insert" /\ last.pre.length = N /\ last.index < N
    /\ last.res.tag = "Panic"

\* C7: pop() on a non-empty vector returns the element at length-1, takes
\* one off the length and keeps elements [0, length-1); on an empty vector
\* it returns None and changes nothing.  So push(x) then pop() returns x
\* and restores the sequence.
C7_Pop ==
    /\ last.op = "pop" =>
          IF last.pre.length = 0
          THEN last.res.tag = "None" /\ Untouched
          ELSE /\ last.res = Res("Some", PreSeq[last.pre.length])
               /\ length = last.pre.length - 1
               /\ Elems = SubSeq(PreSeq, 1, last.pre.length - 1)
    /\ last.op = "push" /\ last.res.tag = "Ok" =>
          /\ pop(M).res = Res("Some", Item)
          /\ as_slice(pop(M).m) = PreSeq

\* pop has taken the last of N elements.
C7_Witness ==
    /\ last.op = "pop" /\ last.pre.length = N
    /\ last.res.tag = "Some" /\ last.res.val = last.pre.items[N - 1]

\* C8: on a vector that is not full and holds s, insert/try_insert(index,
\* item) with index <= length yields s[0..index) ++ [item] ++
\* s[index..length) and the length grows by one.
C8_InsertShiftsRight ==
    /\ last.op \in {"insert", "try_insert"}
    /\ last.pre.length < N
    /\ last.index <= last.pre.length
    => /\ last.res.tag = "Ok"
       /\ length = last.pre.length + 1
       /\ Elems = SubSeq(PreSeq, 1, last.index) \o <<Item>>
                    \o SubSeq(PreSeq, last.index + 1, last.pre.length)

\* try_insert at the front has moved two elements to the right.
C8_Witness ==
    /\ last.op = "try_insert" /\ last.index = 0 /\ last.pre.length = 2
    /\ last.res.tag = "Ok" /\ Elems = <<Item>> \o PreSeq

\* C9: insert and try_insert panic whenever index > length, full or not;
\* with index <= length on a full vector try_insert returns the item in
\* CapacityError and changes nothing.
C9_InsertIndexCheckedFirst ==
    /\ (last.op \in {"insert", "try_insert"} /\ last.index > last.pre.length)
          => (last.res.tag = "Panic" /\ Untouched)
    /\ (/\ last.op = "try_insert"
        /\ last.index <= last.pre.length
        /\ last.pre.length = N)
          => (last.res = Res("Err", Item) /\ Untouched)

\* try_insert beyond the end of a full vector has panicked.
C9_Witness ==
    /\ last.op = "try_insert" /\ last.pre.length = N /\ last.index > N
    /\ last.res.tag = "Panic"

\* C10: with index <= length and index < N, force_insert(index, item) on a
\* full vector holding s returns Some(s[N-1]) and leaves s[0..index) ++
\* [item] ++ s[index..N-1), length N; on a vector that is not full it
\* returns None and does what insert(index, item) does.
C10_ForceInsert ==
    /\ last.op = "force_insert"
    /\ last.index <= last.pre.length
    /\ last.index < N
    => IF last.pre.length = N
       THEN /\ last.res = Res("Some", PreSeq[N])
            /\ length = N
            /\ Elems = SubSeq(PreSeq, 1, last.index) \o <<Item>>
                         \o SubSeq(PreSeq, last.index + 1, N - 1)
       ELSE LET pre == [items |-> last.pre.items, length |-> last.pre.length,
                        log |-> <<>>, fault |-> FALSE]
                ins == insert(pre, last.index, Item)
            IN  /\ last.res.tag = "None"
                /\ ins.res.tag = "Ok"
                /\ items = ins.m.items
                /\ length = ins.m.length
                /\ length = last.pre.length + 1

\* force_insert into the middle of a full vector has evicted the last
\* element.
C10_Witness ==
    /\ last.op = "force_insert" /\ last.pre.length = N /\ last.index = 1
    /\ last.res = Res("Some", last.pre.items[N - 1])
\* C11: force_insert(index, item) panics if index > length or index = N,
\* and then evicts nothing and changes neither length nor contents; so
\* force_insert(N, item) on a full vector panics.
C11_ForceInsertBounds ==
    (last.op = "force_insert"
       /\ (last.index > last.pre.length \/ last.index = N))
    => /\ last.res = Res("Panic", Item)
       /\ last.log = <<>>
       /\ ~last.fault
       /\ Untouched

\* force_insert at index N of a full vector has panicked.
C11_Witness ==
    /\ last.op = "force_insert" /\ last.pre.length = N /\ last.index = N
    /\ last.res.tag = "Panic" /\ Elems = PreSeq

\* C12: on a vector holding s, remove/try_remove(index) with index < length
\* returns s[index] and leaves s[0..index) ++ s[index+1..length), one
\* shorter and in the same order.
C12_RemoveKeepsOrder ==
    (last.op \in {"remove", "try_remove"} /\ last.index < last.pre.length)
    => /\ last.res = Res("Some", PreSeq[last.index + 1])
       /\ length = last.pre.length - 1
       /\ Elems = SubSeq(PreSeq, 1, last.index)
                    \o SubSeq(PreSeq, last.index + 2, last.pre.length)

\* remove(1) of three elements has returned the middle one.
C12_Witness ==
    /\ last.op = "remove" /\ last.index = 1 /\ last.pre.length = 3
    /\ last.res = Res("Some", last.pre.items[1])
    /\ Elems = <<last.pre.items[0], last.pre.items[2]>>

\* C13: on a vector holding s, swap_remove/try_swap_remove(index) with
\* index < length returns s[index], takes one off the length, puts
\* s[length-1] at index (when index < length-1) and moves nothing else;
\* at index = length-1 it does what pop does.
C13_SwapRemove ==
    (last.op \in {"swap_remove", "try_swap_remove"}
       /\ last.index < last.pre.length)
    => /\ last.res = Res("Some", PreSeq[last.index + 1])
       /\ length = last.pre.length - 1
       /\ \A k \in 1..length :
             Elems[k] = IF k = last.index + 1
                        THEN PreSeq[last.pre.length]
                        ELSE PreSeq[k]
       /\ Range(Elems) = Range(PreSeq) \ {PreSeq[last.index + 1]}
       /\ Cardinality(Range(Elems)) = length
       /\ last.index = last.pre.length - 1 =>
             LET pre == [items |-> last.pre.items,
                         length |-> last.pre.length,
                         log |-> <<>>, fault |-> FALSE]
                 p   == pop(pre)
             IN  /\ last.res = p.res
                 /\ items = p.m.items
                 /\ length = p.m.length

\* swap_remove(0) of three elements has put the last one first.
C13_Witness ==
    /\ last.op = "swap_remove" /\ last.index = 0 /\ last.pre.length = 3
    /\ last.res = Res("Some", last.pre.items[0])
    /\ Elems = <<last.pre.items[2], last.pre.items[1]>>

\* C14: with index >= length, try_remove and try_swap_remove return None
\* and change nothing, remove and swap_remove panic; no index is clamped
\* to the last element.
C14_RemoveOutOfRange ==
    (last.op \in {"remove", "try_remove", "swap_remove", "try_swap_remove"}
       /\ last.index >= last.pre.length)
    => /\ last.res = IF last.op \in {"try_remove", "try_swap_remove"}
                     THEN Res("None", UNINIT)
                     ELSE Res("Panic", UNINIT)
       /\ last.log = <<>>
       /\ Untouched

\* try_swap_remove just past the end of a non-empty vector returned None.
C14_Witness ==
    /\ last.op = "try_swap_remove" /\ last.pre.length = 2 /\ last.index = 2
    /\ last.res.tag = "None" /\ length = 2
\* The vector before the last call, as a method takes it.
PreVec == [items |-> last.pre.items, length |-> last.pre.length,
           log |-> <<>>, fault |-> FALSE]

\* C15: on a vector that is not full, insert(index, item) with index <=
\* length followed by remove(index) returns item and leaves the sequence
\* and the length the vector had before the insert.
C15_InsertThenRemove ==
    (last.op = "insert" /\ last.pre.length < N
       /\ last.index <= last.pre.length)
    => /\ last.res.tag = "Ok"
       /\ remove(M, last.index).res = Res("Some", Item)
       /\ as_slice(remove(M, last.index).m) = PreSeq
       /\ len(remove(M, last.index).m) = last.pre.length

\* insert at the end of a two-element vector: remove at that index is the
\* removal of the last element.
C15_Witness ==
    /\ last.op = "insert" /\ last.res.tag = "Ok"
    /\ last.pre.length = 2 /\ last.index = 2
    /\ remove(M, 2).res.val = Item

\* C16: truncate(new_length) with new_length < length drops exactly the
\* elements at [new_length, length), each once and in increasing index
\* order, sets the length to new_length and keeps elements [0,
\* new_length); with new_length >= length it changes and drops nothing.
\* clear() does what truncate(0) does.
C16_Truncate ==
    /\ last.op = "truncate" =>
          IF last.index < last.pre.length
          THEN /\ length = last.index
               /\ Elems = SubSeq(PreSeq, 1, last.index)
               /\ Len(last.log) = last.pre.length - last.index
               /\ \A k \in DOMAIN last.log :
                     /\ last.log[k].kind = "drop"
                     /\ last.log[k].idx = last.index + k - 1
                     /\ last.log[k].val = last.pre.items[last.index + k - 1]
          ELSE Untouched /\ last.log = <<>>
    /\ last.op = "clear" =>
          /\ items = truncate(PreVec, 0).m.items
          /\ length = truncate(PreVec, 0).m.length
          /\ last.log = truncate(PreVec, 0).m.log
          /\ length = 0
          /\ Len(DroppedSeq) = last.pre.length

\* truncate(1) of three elements has dropped the second, then the third.
C16_Witness ==
    /\ last.op = "truncate" /\ last.index = 1 /\ last.pre.length = 3
    /\ length = 1
    /\ Len(DroppedSeq) = 2
    /\ DroppedSeq[1].val = last.pre.items[1]
    /\ DroppedSeq[2].val = last.pre.items[2]

\* C17: try_extend_from_slice(items) with more items than remaining
\* capacity returns the capacity error and writes nothing; otherwise (also
\* when it fills the vector exactly, or is empty on a full vector) it
\* appends all items in order and adds their number to the length.
C17_TryExtendFromSlice ==
    last.op = "try_extend_from_slice" =>
        IF Len(last.given) > N - last.pre.length
        THEN /\ last.res = Res("Err", UNINIT)
             /\ Untouched
        ELSE /\ last.res.tag = "Ok"
             /\ length = last.pre.length + Len(last.given)
             /\ Elems = PreSeq \o last.given
             /\ \A i \in Slots : i >= length => items[i] = last.pre.items[i]

\* A slice of two was refused by a vector with room for one.
C17_Witness ==
    /\ last.op = "try_extend_from_slice" /\ last.pre.length = N - 1
    /\ Len(last.given) = 2 /\ last.res.tag = "Err" /\ length = N - 1

\* C18: dropping the vector, after any sequence of calls, runs the
\* destructor of exactly the elements at [0, length), each once and in
\* increasing index order; no value that had already left the vector
\* (handed out by pop, remove, swap_remove or force_insert, or dropped by
\* truncate or clear) is dropped again.
C18_DropTearsDownPrefix ==
    (last.op = "drop") =>
        (/\ ~last.fault
         /\ length = 0
         /\ Len(DroppedSeq) = last.pre.length
         /\ \A k \in 1..Len(DroppedSeq) :
                /\ DroppedSeq[k].idx = k - 1
                /\ DroppedSeq[k].val = PreSeq[k]
         /\ \A v \in Vals : gone[v] <= 1)

\* A vector of two was dropped while the slot behind its end still held
\* the bits of a value that had been handed out.
C18_Witness ==
    /\ last.op = "drop" /\ ~alive /\ last.pre.length = 2
    /\ last.pre.items[2] # UNINIT /\ gone[last.pre.items[2]] = 1
    /\ Len(DroppedSeq) = 2

\* C19: for a vector holding s and a range with a <= b <= length, making
\* a drain over [a, b) and dropping it takes out of the vector exactly the
\* elements that were at [a, b), each once and in index order (those the
\* caller asked for are yielded to it, the rest are dropped with the
\* drain); the vector is then s[0..a) ++ s[b..length) and b - a shorter,
\* whether all, some or none of the range was yielded before the drop.
C19_DrainRemovesRange ==
    (last.op = "drain_drop") =>
        LET a == last.range.start
            b == last.range.end
            victims == SubSeq(PreSeq, a + 1, b)
            torn == [k \in 1..Len(DroppedSeq) |-> DroppedSeq[k].val]
        IN  /\ ~last.fault /\ ~drain.active
            /\ a <= b /\ b <= last.pre.length
            /\ last.taken \o torn = victims
            /\ \A k \in 1..Len(DroppedSeq) :
                   DroppedSeq[k].idx = a + Len(last.taken) + k - 1
            /\ \A k \in 1..Len(victims) : gone[victims[k]] = 1
            /\ Elems = SubSeq(PreSeq, 1, a)
                          \o SubSeq(PreSeq, b + 1, last.pre.length)
            /\ length = last.pre.length - (b - a)

\* A drain over [0, 2) of a full vector was dropped after it had yielded
\* one element: the other was dropped with it and the element behind the
\* range moved down to slot 0.
C19_Witness ==
    /\ last.op = "drain_drop" /\ last.pre.length = N
    /\ last.range = Range2(0, 2) /\ Len(last.taken) = 1
    /\ Len(DroppedSeq) = 1 /\ length = N - 2
    /\ items[0] = last.pre.items[2]

\* C20: from the moment a drain over [start, end) is made, and for as
\* long as it is alive whatever it has yielded, the vector's length is the
\* length before the drain less (end - start); no slot is written while
\* the drain is alive, the tail is moved only when the drain is dropped.
C20_LengthReducedWhileDraining ==
    drain.active =>
        (/\ last.op \in {"drain", "drain_next"}
         /\ len(M) = drain.pre.length - (drain.end - drain.start)
         /\ items = drain.pre.items
         /\ drain.tail = drain.pre.length - drain.end)

\* A drain with one element behind its range has yielded an element; the
\* element behind the range is still in its old slot.
C20_Witness ==
    /\ drain.active /\ last.op = "drain_next" /\ last.res.tag = "Some"
    /\ drain.start = 0 /\ drain.end = 1 /\ drain.pre.length = 2
    /\ length = 1 /\ items[1] = drain.pre.items[1]
    /\ items[0] = last.res.val

\* C21: making a drain with start > end or end > length panics and leaves
\* the vector's length and slots as they were; once a drain has been made,
\* neither advancing it nor dropping it panics or touches memory outside
\* the array.
C21_DrainFailsOnlyAtConstruction ==
    /\ (last.op = "drain"
          /\ (last.range.start > last.range.end
                \/ last.range.end > last.pre.length)) =>
           (/\ last.res.tag = "Panic"
            /\ Untouched
            /\ ~drain.active
            /\ last.log = <<>>)
    /\ (last.op \in {"drain_next", "drain_drop"}) =>
           (/\ last.res.tag \in {"Some", "None", "Unit"}
            /\ ~last.fault
            /\ length >= 0 /\ length <= N)
    /\ drain.active =>
           (/\ drain.start <= drain.head /\ drain.head <= drain.end
            /\ drain.end <= drain.pre.length)

\* A drain whose end is one past the length of a vector of two panicked.
C21_Witness ==
    /\ last.op = "drain" /\ last.pre.length = 2
    /\ last.range = Range2(1, 3) /\ last.res.tag = "Panic"
    /\ length = 2 /\ ~drain.active

\* C22: truncate lowers the length to new_length before it drops any
\* element: whenever the destructor of an element of [new_length, old
\* length) runs, len() is already new_length.  So if a destructor panics
\* part-way the vector is left with length new_length, shows no element
\* that was dropped, and no element is dropped a second time (not by a
\* later call and not when the vector itself is dropped).
C22_TruncateLowersLengthFirst ==
    /\ (last.op = "truncate" /\ last.index < last.pre.length) =>
           (/\ Len(DroppedSeq) = last.pre.length - last.index
            /\ \A k \in DOMAIN DroppedSeq :
                   /\ DroppedSeq[k].len = last.index
                   /\ DroppedSeq[k].idx >= last.index
                   /\ DroppedSeq[k].idx < last.pre.length
            /\ length = last.index)
    /\ \A v \in Vals : gone[v] <= 1
    /\ \A i \in Slots :
           (i < length /\ items[i] \in Vals) => gone[items[i]] = 0

\* A destructor panicked in truncate(1) of three elements: the length is
\* 1 and both elements of the tail were dropped.
C22_Witness ==
    /\ last.op = "truncate" /\ last.res.tag = "Panic"
    /\ last.pre.length = 3 /\ last.index = 1
    /\ length = 1 /\ Len(DroppedSeq) = 2
    /\ DroppedSeq[1].len = 1 /\ gone[last.pre.items[1]] = 1

\* How many of the slots [0, length) hold value v.
Live(v) == Cardinality({i \in Slots : i < length /\ items[i] = v})

\* C23: ownership is conserved over any sequence of calls: after every
\* call, each value the caller has made so far is in exactly one place,
\* either in one slot of [0, length) or gone from the vector exactly once
\* (handed back by pop, remove, swap_remove, force_insert or a failed
\* try_push or try_insert, unwound with a panic, or dropped by truncate,
\* clear or drop); it is never in two places and never in none, and a
\* value not yet made is nowhere.
C23_OwnershipConserved ==
    /\ \A v \in Vals :
           Live(v) + gone[v] = (IF v < next THEN 1 ELSE 0)
    /\ \A i \in Slots : i < length => items[i] \in Vals
    /\ (last.res.tag \in {"Some", "Err"} /\ last.res.val # UNINIT) =>
           (Live(last.res.val) = 0 /\ last.res.val \notin Dropped)
    /\ \A v \in Dropped : Live(v) = 0

\* swap_remove of the last index of a vector of two: the value is with
\* the caller and in no live slot, though its bits are still in slot 1.
C23_Witness ==
    /\ last.op = "swap_remove" /\ last.pre.length = 2 /\ last.index = 1
    /\ last.res.tag = "Some" /\ last.res.val = last.pre.items[1]
    /\ items[1] = last.res.val /\ length = 1
    /\ gone[last.res.val] = 1 /\ Live(last.res.val) = 0

====
